---- MODULE Spec2Model ----
(***************************************************************************)
(* A model of can.Message (src/can/message.py): construction with its      *)
(* payload normalisation and optional check, equality, hashing, length     *)
(* and the display string.                                                 *)
(*                                                                         *)
(* Python objects that can be shared and mutated (the caller's bytearray   *)
(* and list, and the bytearray a Message allocates for itself) live in     *)
(* `heap`, indexed by an object id; a Message's `data` attribute is such   *)
(* an id.  Strings are sequences of one-character strings.  Sequences are  *)
(* indexed from 1, Python's from 0.                                        *)
(*                                                                         *)
(* msgs[s] is the frame bound to the caller's variable s, call[s] the      *)
(* arguments of the constructor call made for it, built[s] what that frame *)
(* looked like when the constructor returned, and result the value or      *)
(* exception of the caller's last call.                                    *)
(***************************************************************************)
EXTENDS Integers, Sequences, FiniteSets, TLC

VARIABLES msgs, call, heap, result, built

vars == <<msgs, call, heap, result, built>>

\* ---------------------------------------------------------------- bounds
MaxLen == 2
MaxDlc == 3
MaxOverrides == 2

\* ------------------------------------------------------ program constants
ClassicMaxDlc == 8
FdMaxDlc == 64
TimestampWidth == 15
TimestampPrecision == 6
ExtendedIdDigits == 8
StandardIdDigits == 4
IdFieldWidth == 12
PayloadFieldWidth == 24

\* ------------------------------------------------------- Python values
None == <<>>
Some(x) == <<x>>

NoExc == "none"
NotImplemented == "NotImplemented"

\* a variable the constructor has not been called for yet, and one whose
\* constructor call raised
Pending == [class |-> "pending"]
Unbound == [class |-> "unbound"]

NonFrames == {"NoneType", "int", "str"}

NonFrameValue(c) == [class |-> c]

ByteVals == {65, 171}

RECURSIVE SeqsUpTo(_, _)
SeqsUpTo(S, n) ==
    IF n = 0 THEN {<<>>}
    ELSE LET shorter == SeqsUpTo(S, n - 1)
         IN  shorter \cup {Append(q, x) : q \in shorter, x \in S}

ByteSeqs == SeqsUpTo(ByteVals, MaxLen)

CallerObjects == {"buf", "lst"}

Own == [a |-> "own_a", b |-> "own_b"]

Oids == CallerObjects \cup {Own[s] : s \in DOMAIN Own}

\* ----------------------------------------------- constructor arguments
NoData == [kind |-> "none", ref |-> "", val |-> <<>>]
ByteArrayArg == [kind |-> "bytearray", ref |-> "buf", val |-> <<>>]
ListArg == [kind |-> "list", ref |-> "lst", val |-> <<>>]
BytesArg(v) == [kind |-> "bytes", ref |-> "", val |-> v]
ObjectArg == [kind |-> "object", ref |-> "", val |-> <<>>]

DataArgs == {NoData, ByteArrayArg, ListArg, ObjectArg} \cup {BytesArg(v) : v \in ByteSeqs}

DefaultArgs ==
    [timestamp |-> 0, arbitration_id |-> 0, extended_id |-> TRUE,
     is_remote_frame |-> FALSE, is_error_frame |-> FALSE, channel |-> None,
     dlc |-> None, data |-> NoData,
     is_fd |-> FALSE, bitrate_switch |-> FALSE, error_state_indicator |-> FALSE,
     check |-> FALSE]

ArgDomain ==
    [timestamp |-> {0, 1}, arbitration_id |-> {0, 291}, extended_id |-> BOOLEAN,
     is_remote_frame |-> BOOLEAN, is_error_frame |-> BOOLEAN,
     channel |-> {None, Some(0), Some(1)},
     dlc |-> {None} \cup {Some(n) : n \in (0..MaxDlc) \cup {ClassicMaxDlc + 1}},
     data |-> DataArgs,
     is_fd |-> BOOLEAN, bitrate_switch |-> BOOLEAN, error_state_indicator |-> BOOLEAN]

OverrideOne(a) ==
    UNION {{[a EXCEPT ![f] = v] : v \in ArgDomain[f]} : f \in DOMAIN ArgDomain}

RECURSIVE CallsWith(_)
CallsWith(k) ==
    IF k = 0 THEN {DefaultArgs}
    ELSE LET fewer == CallsWith(k - 1)
         IN  fewer \cup UNION {OverrideOne(a) : a \in fewer}

WithCheck(A) == A \cup {[a EXCEPT !.check = TRUE] : a \in A}

Calls == WithCheck(CallsWith(MaxOverrides))

PairCalls == CallsWith(MaxOverrides - 1)

\* ------------------------------------------------------ Message.__init__
Payload(h, self) == h[self.data]

\* bytearray(data): a list of byte values or a bytes object converts, any
\* other object raises TypeError
ByteArrayOf(h, d) ==
    IF d.kind \in {"bytearray", "list"} THEN [exc |-> NoExc, bytes |-> h[d.ref]]
    ELSE IF d.kind = "bytes" THEN [exc |-> NoExc, bytes |-> d.val]
    ELSE [exc |-> "TypeError", bytes |-> <<>>]

\* StoreData keeping a reference to any mutable source instead of copying it
StoreData_NoCopy(h, s, args) ==
    IF args.data.kind = "none" \/ args.is_remote_frame
    THEN [exc |-> NoExc, ref |-> Own[s], bytes |-> <<>>]
    ELSE IF args.data.kind \in {"bytearray", "list"}
    THEN [exc |-> NoExc, ref |-> args.data.ref, bytes |-> h[args.data.ref]]
    ELSE LET c == ByteArrayOf(h, args.data)
         IN  IF c.exc # NoExc
             THEN [exc |-> "TypeError", ref |-> Own[s], bytes |-> <<>>]
             ELSE [exc |-> NoExc, ref |-> Own[s], bytes |-> c.bytes]

\* StoreData testing only `data is None`, not is_remote_frame
StoreData_IgnoresRemote(h, s, args) ==
    IF args.data.kind = "none"
    THEN [exc |-> NoExc, ref |-> Own[s], bytes |-> <<>>]
    ELSE IF args.data.kind = "bytearray"
    THEN [exc |-> NoExc, ref |-> args.data.ref, bytes |-> h[args.data.ref]]
    ELSE LET c == ByteArrayOf(h, args.data)
         IN  IF c.exc # NoExc
             THEN [exc |-> "TypeError", ref |-> Own[s], bytes |-> <<>>]
             ELSE [exc |-> NoExc, ref |-> Own[s], bytes |-> c.bytes]

\* the object self.data is bound to and its contents
StoreData(h, s, args) ==
    IF args.data.kind = "none" \/ args.is_remote_frame
    THEN [exc |-> NoExc, ref |-> Own[s], bytes |-> <<>>]
    ELSE IF args.data.kind = "bytearray"
    THEN [exc |-> NoExc, ref |-> args.data.ref, bytes |-> h[args.data.ref]]
    ELSE LET c == ByteArrayOf(h, args.data)
         IN  IF c.exc # NoExc
             THEN [exc |-> "TypeError", ref |-> Own[s], bytes |-> <<>>]
             ELSE [exc |-> NoExc, ref |-> Own[s], bytes |-> c.bytes]

\* InitDlc testing `not dlc` instead of `dlc is None`
InitDlc_Falsy(args, payload) ==
    IF args.dlc = None \/ args.dlc = Some(0) THEN Len(payload) ELSE args.dlc[1]


InitDlc(args, payload) ==
    IF args.dlc = None THEN Len(payload) ELSE args.dlc[1]

\* names bound at module level when a method body runs
ModuleGlobals == {"logging", "Message"}

\* Message._check: `is_fd` and `logger` are looked up as globals
Check(self) ==
    IF "is_fd" \notin ModuleGlobals THEN "NameError"
    ELSE IF "logger" \notin ModuleGlobals
            /\ (self.dlc > FdMaxDlc \/ self.dlc > ClassicMaxDlc)
    THEN "NameError"
    ELSE NoExc

MessageInit(h, s, args) ==
    LET d == StoreData(h, s, args)
        self == [class |-> "Message",
                 timestamp |-> args.timestamp,
                 arbitration_id |-> args.arbitration_id,
                 id_type |-> args.extended_id,
                 is_extended_id |-> args.extended_id,
                 is_remote_frame |-> args.is_remote_frame,
                 is_error_frame |-> args.is_error_frame,
                 channel |-> args.channel,
                 is_fd |-> args.is_fd,
                 bitrate_switch |-> args.bitrate_switch,
                 error_state_indicator |-> args.error_state_indicator,
                 data |-> d.ref,
                 dlc |-> InitDlc(args, d.bytes)]
        released == [h EXCEPT ![Own[s]] = <<>>]
        exc == IF d.exc # NoExc THEN d.exc
               ELSE IF args.check THEN Check(self)
               ELSE NoExc
    IN  IF exc # NoExc
        THEN [exc |-> exc, self |-> Unbound, heap |-> released]
        ELSE [exc |-> NoExc, self |-> self,
              heap |-> [h EXCEPT ![Own[s]] = IF d.ref = Own[s] THEN d.bytes ELSE <<>>]]

\* MsgEq leaving the channel out, as the class docstring describes
MsgEq_IgnoresChannel(h, self, other) ==
    IF other.class = self.class
    THEN IF /\ self.arbitration_id = other.arbitration_id
            /\ self.is_extended_id = other.is_extended_id
            /\ self.is_remote_frame = other.is_remote_frame
            /\ self.is_error_frame = other.is_error_frame
            /\ self.dlc = other.dlc
            /\ Payload(h, self) = Payload(h, other)
            /\ self.is_fd = other.is_fd
            /\ self.bitrate_switch = other.bitrate_switch
            /\ self.error_state_indicator = other.error_state_indicator
         THEN "True" ELSE "False"
    ELSE NotImplemented

\* -------------------------------------------------- Message.__eq__ / __ne__
MsgEq(h, self, other) ==
    IF other.class = self.class
    THEN IF /\ self.arbitration_id = other.arbitration_id
            /\ self.is_extended_id = other.is_extended_id
            /\ self.is_remote_frame = other.is_remote_frame
            /\ self.is_error_frame = other.is_error_frame
            /\ self.channel = other.channel
            /\ self.dlc = other.dlc
            /\ Payload(h, self) = Payload(h, other)
            /\ self.is_fd = other.is_fd
            /\ self.bitrate_switch = other.bitrate_switch
            /\ self.error_state_indicator = other.error_state_indicator
         THEN "True" ELSE "False"
    ELSE NotImplemented

\* MsgNe negating __eq__ without its own isinstance test
MsgNe_Negates(h, self, other) ==
    IF MsgEq(h, self, other) = "False" THEN "True" ELSE "False"

MsgNe(h, self, other) ==
    IF other.class = self.class
    THEN IF MsgEq(h, self, other) = "True" THEN "False" ELSE "True"
    ELSE NotImplemented

\* ------------------------------------------------------- Message.__hash__
\* the tuple handed to hash(), each element with its Python type
HashInput(h, self) ==
    << [type |-> "int", v |-> Some(self.arbitration_id)],
       [type |-> "bool", v |-> Some(self.is_extended_id)],
       [type |-> "int", v |-> Some(self.dlc)],
       [type |-> "bytearray", v |-> Payload(h, self)],
       [type |-> "bool", v |-> Some(self.is_fd)],
       [type |-> "bool", v |-> Some(self.bitrate_switch)],
       [type |-> "bool", v |-> Some(self.is_remote_frame)],
       [type |-> "bool", v |-> Some(self.is_error_frame)] >>

UnhashableTypes == {"bytearray", "list"}

\* hash() of a tuple hashes every element; the value is kept abstract as the
\* tuple of hashed values
TupleHash(t) ==
    IF \E i \in DOMAIN t : t[i].type \in UnhashableTypes
    THEN [exc |-> "TypeError", val |-> <<>>]
    ELSE [exc |-> NoExc, val |-> t]

MsgHash(h, self) == TupleHash(HashInput(h, self))

\* -------------------------------------------------------- Message.__len__
MsgLen(h, self) == Len(Payload(h, self))

\* ------------------------------------------------------ string formatting
HexDigits == <<"0", "1", "2", "3", "4", "5", "6", "7", "8", "9", "a", "b", "c", "d", "e", "f">>

AlnumChars ==
    <<"0", "1", "2", "3", "4", "5", "6", "7", "8", "9", "A", "B", "C", "D", "E", "F", "G", "H", "I", "J", "K", "L", "M", "N", "O", "P", "Q", "R", "S", "T", "U">> \o
    <<"V", "W", "X", "Y", "Z", "a", "b", "c", "d", "e", "f", "g", "h", "i", "j", "k", "l", "m", "n", "o", "p", "q", "r", "s", "t", "u", "v", "w", "x", "y", "z">>

Min(x, y) == IF x <= y THEN x ELSE y

RECURSIVE HexStr(_)
HexStr(n) ==
    IF n < 16 THEN <<HexDigits[n + 1]>>
    ELSE Append(HexStr(n \div 16), HexDigits[(n % 16) + 1])

RECURSIVE DecStr(_)
DecStr(n) ==
    IF n < 10 THEN <<HexDigits[n + 1]>>
    ELSE Append(DecStr(n \div 10), HexDigits[(n % 10) + 1])

Repeat(c, n) == [i \in 1..n |-> c]

RJust(str, w, c) == IF Len(str) >= w THEN str ELSE Repeat(c, w - Len(str)) \o str

LJust(str, w, c) == IF Len(str) >= w THEN str ELSE str \o Repeat(c, w - Len(str))

RECURSIVE Join(_, _)
Join(sep, strs) ==
    IF Len(strs) = 0 THEN <<>>
    ELSE IF Len(strs) = 1 THEN strs[1]
    ELSE strs[1] \o sep \o Join(sep, Tail(strs))

\* str.strip(): drop leading and trailing blanks
Strip(str) ==
    LET inked == {i \in DOMAIN str : str[i] # " "}
    IN  IF inked = {} THEN <<>>
        ELSE LET first == CHOOSE i \in inked : \A j \in inked : i <= j
                 last == CHOOSE i \in inked : \A j \in inked : j <= i
             IN  SubSeq(str, first, last)

\* "{0:>15.6f}" of a whole number of seconds
FormatTimestamp(t) ==
    RJust(DecStr(t) \o <<".">> \o Repeat("0", TimestampPrecision), TimestampWidth, " ")

\* "{0:08x}" / "{0:04x}"
FormatId(n, digits) == RJust(HexStr(n), digits, "0")

\* "{0:02x}"
FormatByte(b) == RJust(HexStr(b), 2, "0")

IsAlnumByte(b) == b \in (48..57) \cup (65..90) \cup (97..122)

\* bytearray.isalnum()
IsAlnum(bytes) == Len(bytes) > 0 /\ \A i \in DOMAIN bytes : IsAlnumByte(bytes[i])

Chr(b) ==
    IF b <= 57 THEN AlnumChars[b - 47]
    ELSE IF b <= 90 THEN AlnumChars[b - 54]
    ELSE AlnumChars[b - 60]

\* bytes.decode('utf-8') of alphanumeric (hence ASCII) bytes
Decode(bytes) == [i \in DOMAIN bytes |-> Chr(bytes[i])]

\* DataStrings looping over range(0, dlc)
DataStrings_Unclamped(bytes, dlc) ==
    LET reads == 1..dlc
    IN  IF reads \subseteq DOMAIN bytes
        THEN [exc |-> NoExc, reads |-> reads,
              strings |-> [i \in reads |-> FormatByte(bytes[i])]]
        ELSE [exc |-> "IndexError", reads |-> reads, strings |-> <<>>]

\* -------------------------------------------------------- Message.__str__
\* the loop over range(0, min(dlc, len(data))): the indices it reads, and
\* the strings it appends; reading past the payload raises IndexError
DataStrings(bytes, dlc) ==
    LET n == Min(dlc, Len(bytes))
        reads == 1..n
    IN  IF reads \subseteq DOMAIN bytes
        THEN [exc |-> NoExc, reads |-> reads,
              strings |-> [i \in reads |-> FormatByte(bytes[i])]]
        ELSE [exc |-> "IndexError", reads |-> reads, strings |-> <<>>]

PayloadField(data_strings) ==
    IF Len(data_strings) > 0
    THEN LJust(Join(<<" ">>, data_strings), PayloadFieldWidth, " ")
    ELSE Repeat(" ", PayloadFieldWidth)

FlagString(self) ==
    Join(<<" ">>,
         << IF self.is_extended_id THEN <<"X">> ELSE <<"S">>,
            IF self.is_error_frame THEN <<"E">> ELSE <<" ">>,
            IF self.is_remote_frame THEN <<"R">> ELSE <<" ">>,
            IF self.is_fd THEN <<"F">> ELSE <<" ">>,
            IF self.bitrate_switch THEN <<"B", "S">> ELSE <<" ", " ">>,
            IF self.error_state_indicator THEN <<"E", "I">> ELSE <<" ", " ">> >>)

MsgStr(h, self) ==
    LET bytes == Payload(h, self)
        ds == DataStrings(bytes, self.dlc)
        id == <<"I", "D", ":", " ">> \o
              FormatId(self.arbitration_id,
                       IF self.is_extended_id THEN ExtendedIdDigits ELSE StandardIdDigits)
        fixed == << <<"T", "i", "m", "e", "s", "t", "a", "m", "p", ":", " ">> \o
                        FormatTimestamp(self.timestamp),
                    RJust(id, IdFieldWidth, " "),
                    FlagString(self),
                    <<"D", "L", "C", ":", " ">> \o DecStr(self.dlc),
                    PayloadField(ds.strings) >>
        text == IF IsAlnum(bytes) THEN << <<"'">> \o Decode(bytes) \o <<"'">> >> ELSE <<>>
        chan == IF self.channel # None
                THEN << <<"C", "h", "a", "n", "n", "e", "l", ":", " ">> \o DecStr(self.channel[1]) >>
                ELSE <<>>
        field_strings == fixed \o text \o chan
    IN  IF ds.exc # NoExc
        THEN [exc |-> ds.exc, reads |-> ds.reads, data_strings |-> <<>>,
              field_strings |-> <<>>, text |-> <<>>]
        ELSE [exc |-> NoExc, reads |-> ds.reads, data_strings |-> ds.strings,
              field_strings |-> field_strings,
              text |-> Strip(Join(<<" ", " ", " ", " ">>, field_strings))]

\* ------------------------------------------------------------ the program
\* what a caller observes of a frame: bytes(self.data), len(self), str(self)
FrameView(h, self) ==
    [data |-> Payload(h, self), len |-> MsgLen(h, self), str |-> MsgStr(h, self).text]

NoView == [data |-> <<>>, len |-> 0, str |-> <<>>]

NoResult == [op |-> "none", slot |-> "", other |-> "", exc |-> NoExc, val |-> <<>>]

Bound(s) == msgs[s].class = "Message"

\* the caller is between two calls: no return value or exception is pending
Idle == result.op = "none"

Operand(o) == IF o \in DOMAIN msgs THEN msgs[o] ELSE NonFrameValue(o)

\* a constructor call was made with caller object o as its data
InUse(o) == \E t \in DOMAIN msgs : msgs[t] # Pending /\ call[t].data.ref = o

Init ==
    /\ msgs = [s \in {"a"} |-> Pending]
    /\ call = [s \in {"a"} |-> DefaultArgs]
    /\ heap = [o \in Oids |-> <<>>]
    /\ result = NoResult
    /\ built = [s \in {"a"} |-> NoView]

InitPair ==
    /\ msgs = [s \in {"a", "b"} |-> Pending]
    /\ call = [s \in {"a", "b"} |-> DefaultArgs]
    /\ heap = [o \in Oids |-> <<>>]
    /\ result = NoResult
    /\ built = [s \in {"a", "b"} |-> NoView]

\* s = Message(**args) for some args of argset; a caller object passed as
\* data and not shared with an earlier call is created just before the call,
\* holding some bytes c.  built[s] keeps what the new frame looks like.
Construct(s, argset) ==
    /\ Idle
    /\ msgs[s] = Pending
    /\ \E args \in argset :
         LET fresh == args.data.ref \in CallerObjects /\ ~InUse(args.data.ref)
         IN  \E c \in IF fresh THEN ByteSeqs ELSE {<<>>} :
               LET h == IF fresh THEN [heap EXCEPT ![args.data.ref] = c] ELSE heap
                   r == MessageInit(h, s, args)
               IN  /\ msgs' = [msgs EXCEPT ![s] = r.self]
                   /\ heap' = r.heap
                   /\ result' = [op |-> "init", slot |-> s, other |-> "",
                                 exc |-> r.exc, val |-> <<>>]
                   /\ call' = [call EXCEPT ![s] = args]
                   /\ built' = [built EXCEPT ![s] = IF r.exc = NoExc
                                                     THEN FrameView(r.heap, r.self)
                                                     ELSE NoView]

\* the caller changes the object it passed as data: o.append(b), o.pop(),
\* o[0] = b
Mutate(o) ==
    /\ Idle
    /\ \E s \in DOMAIN msgs : Bound(s) /\ call[s].data.ref = o
    /\ \/ \E b \in ByteVals :
             /\ Len(heap[o]) < MaxLen
             /\ heap' = [heap EXCEPT ![o] = Append(@, b)]
       \/ /\ Len(heap[o]) > 0
          /\ heap' = [heap EXCEPT ![o] = SubSeq(@, 1, Len(@) - 1)]
       \/ \E b \in ByteVals :
             /\ Len(heap[o]) > 0
             /\ heap' = [heap EXCEPT ![o] = [@ EXCEPT ![1] = b]]
    /\ UNCHANGED <<msgs, call, result, built>>

\* str(s)
DoStr(s) ==
    /\ Idle
    /\ Bound(s)
    /\ LET r == MsgStr(heap, msgs[s])
       IN  result' = [op |-> "str", slot |-> s, other |-> "", exc |-> r.exc, val |-> r]
    /\ UNCHANGED <<msgs, call, heap, built>>

\* len(s)
DoLen(s) ==
    /\ Idle
    /\ Bound(s)
    /\ result' = [op |-> "len", slot |-> s, other |-> "", exc |-> NoExc,
                  val |-> MsgLen(heap, msgs[s])]
    /\ UNCHANGED <<msgs, call, heap, built>>

\* hash(s)
DoHash(s) ==
    /\ Idle
    /\ Bound(s)
    /\ LET r == MsgHash(heap, msgs[s])
       IN  result' = [op |-> "hash", slot |-> s, other |-> "", exc |-> r.exc, val |-> r.val]
    /\ UNCHANGED <<msgs, call, heap, built>>

\* s.__eq__(o)
DoEq(s, o) ==
    /\ Idle
    /\ Bound(s)
    /\ o \in DOMAIN msgs => Bound(o)
    /\ result' = [op |-> "eq", slot |-> s, other |-> o, exc |-> NoExc,
                  val |-> MsgEq(heap, msgs[s], Operand(o))]
    /\ UNCHANGED <<msgs, call, heap, built>>

\* s.__ne__(o)
DoNe(s, o) ==
    /\ Idle
    /\ Bound(s)
    /\ o \in DOMAIN msgs => Bound(o)
    /\ result' = [op |-> "ne", slot |-> s, other |-> o, exc |-> NoExc,
                  val |-> MsgNe(heap, msgs[s], Operand(o))]
    /\ UNCHANGED <<msgs, call, heap, built>>

\* the caller takes the value returned, or the exception raised, by its last
\* call and goes on
Resume ==
    /\ ~Idle
    /\ result' = NoResult
    /\ UNCHANGED <<msgs, call, heap, built>>

\* one frame, its caller-owned payload source, and every operation on it
Next ==
    \/ Construct("a", Calls)
    \/ \E o \in CallerObjects : Mutate(o)
    \/ DoStr("a")
    \/ DoLen("a")
    \/ DoHash("a")
    \/ \E o \in {"a"} \cup NonFrames : DoEq("a", o)
    \/ \E o \in {"a"} \cup NonFrames : DoNe("a", o)
    \/ Resume

Spec == Init /\ [][Next]_vars

\* two frames, the second built from the first one's arguments with at most
\* one of them changed, compared and hashed
NextPair ==
    \/ Construct("a", PairCalls)
    \/ msgs["a"] # Pending /\ Construct("b", OverrideOne(call["a"]))
    \/ \E s \in DOMAIN msgs : DoHash(s)
    \/ \E s, t \in DOMAIN msgs : DoEq(s, t)
    \/ \E s, t \in DOMAIN msgs : DoNe(s, t)
    \/ Resume

SpecPair == InitPair /\ [][NextPair]_vars

\* ------------------------------------------------------------ properties
TenFieldsAgree(h, x, y) ==
    /\ x.arbitration_id = y.arbitration_id
    /\ x.is_extended_id = y.is_extended_id
    /\ x.is_remote_frame = y.is_remote_frame
    /\ x.is_error_frame = y.is_error_frame
    /\ x.channel = y.channel
    /\ x.dlc = y.dlc
    /\ h[x.data] = h[y.data]
    /\ x.is_fd = y.is_fd
    /\ x.bitrate_switch = y.bitrate_switch
    /\ x.error_state_indicator = y.error_state_indicator

C2_EqualFramesHashEqual ==
    \A s, t \in DOMAIN msgs :
        (/\ result.op = "hash" /\ result.slot = s
         /\ Bound(t)
         /\ MsgEq(heap, msgs[s], msgs[t]) = "True")
        => /\ result.exc = NoExc
           /\ MsgHash(heap, msgs[t]).exc = NoExc
           /\ result.val = MsgHash(heap, msgs[t]).val

\* C3: the value handed to hash() is determined by exactly the ten equality
\* fields: two frames give the same hash input exactly when they agree on
\* all ten
C3_HashOverEqualityFields ==
    \A s, t \in DOMAIN msgs :
        (Bound(s) /\ Bound(t))
        => (HashInput(heap, msgs[s]) = HashInput(heap, msgs[t])
            <=> TenFieldsAgree(heap, msgs[s], msgs[t]))

\* C4: a constructor call with check=True and both is_remote_frame and
\* is_error_frame raises ValueError and leaves no frame
C4_RemoteErrorRejected ==
    \A s \in DOMAIN msgs :
        (/\ result.op = "init" /\ result.slot = s
         /\ call[s].check /\ call[s].is_remote_frame /\ call[s].is_error_frame)
        => result.exc = "ValueError" /\ msgs[s] = Unbound

\* C5 as stated: a non-remote frame built from any byte source shows, in
\* every later state, the data, length and display string it was built with
C5_AnySourceCopied ==
    \A s \in DOMAIN msgs :
        (/\ Bound(s)
         /\ ~call[s].is_remote_frame
         /\ call[s].data.kind # "none")
        => FrameView(heap, msgs[s]) = built[s]

\* C5: a non-remote frame built from a byte source that is not a bytearray
\* shows, in every later state, the data, length and display string it was
\* built with
C5_NonByteArraySourceCopied ==
    \A s \in DOMAIN msgs :
        (/\ Bound(s)
         /\ ~call[s].is_remote_frame
         /\ call[s].data.kind \notin {"none", "bytearray"})
        => FrameView(heap, msgs[s]) = built[s]

\* the caller's list has been changed since the frame was built from it
C5_Witness ==
    /\ Bound("a")
    /\ ~call["a"].is_remote_frame
    /\ call["a"].data.kind = "list"
    /\ heap["lst"] # Payload(heap, msgs["a"])

\* C6: a frame constructed with is_remote_frame=True has an empty payload,
\* whatever data was passed, and the data argument alone never makes the
\* construction fail
C6_RemotePayloadEmpty ==
    \A s \in DOMAIN msgs :
        (msgs[s] # Pending /\ call[s].is_remote_frame)
        => /\ ~call[s].check => Bound(s)
           /\ Bound(s) => /\ Payload(heap, msgs[s]) = <<>>
                          /\ MsgLen(heap, msgs[s]) = 0

\* a remote frame built from data that bytearray() cannot convert
C6_Witness ==
    /\ Bound("a")
    /\ call["a"].is_remote_frame
    /\ call["a"].data.kind = "object"

\* C7: right after construction, dlc is the stored payload's length when
\* dlc was omitted (0 for a remote frame or absent data) and the supplied
\* value otherwise
C7_DlcDefault ==
    \A s \in DOMAIN msgs :
        (result.op = "init" /\ result.slot = s /\ Bound(s))
        => IF call[s].dlc = None
           THEN /\ msgs[s].dlc = Len(Payload(heap, msgs[s]))
                /\ (call[s].is_remote_frame \/ call[s].data.kind = "none")
                   => msgs[s].dlc = 0
           ELSE msgs[s].dlc = call[s].dlc[1]

\* a frame built with a dlc that differs from its payload length
C7_Witness ==
    /\ result.op = "init" /\ Bound("a")
    /\ call["a"].dlc # None
    /\ Payload(heap, msgs["a"]) # <<>>
    /\ msgs["a"].dlc # Len(Payload(heap, msgs["a"]))

C9_NonFrameNotImplemented ==
    (result.op \in {"eq", "ne"} /\ result.other \in NonFrames)
    => result.exc = NoExc /\ result.val = NotImplemented

\* __ne__ was called with an operand that is not a Message
C9_Witness ==
    result.op = "ne" /\ result.other \in NonFrames

ValidArgs(h, a) ==
    /\ ~(a.is_remote_frame /\ a.is_error_frame)
    /\ (a.data.kind = "object" => a.is_remote_frame)
    /\ LET dlc == IF a.dlc # None THEN a.dlc[1]
                  ELSE IF a.is_remote_frame \/ a.data.kind \in {"none", "object"} THEN 0
                  ELSE IF a.data.kind = "bytes" THEN Len(a.data.val)
                  ELSE Len(h[a.data.ref])
       IN  dlc <= (IF a.is_fd THEN FdMaxDlc ELSE ClassicMaxDlc)

\* C10: a constructor call with check=True and valid arguments raises
\* nothing and yields the frame the same call yields with check=False
C10_ValidFramePassesCheck ==
    \A s \in DOMAIN msgs :
        (/\ result.op = "init" /\ result.slot = s
         /\ call[s].check /\ ValidArgs(heap, call[s]))
        => /\ result.exc = NoExc
           /\ Bound(s)
           /\ msgs[s] = MessageInit(heap, s, [call[s] EXCEPT !.check = FALSE]).self
====
